---- MODULE Spec2Model ----
(***************************************************************************)
(* A model of src/impl/tokenParser.js (luxon): a date/time format, given   *)
(* as a token list, is compiled to match units, assembled into one         *)
(* anchored pattern, matched against an input and resolved into calendar   *)
(* fields and a zone.                                                      *)
(*                                                                         *)
(* Strings are sequences of one-character strings.  A regular expression   *)
(* is a syntax tree; RegExp parses a pattern source into one, as the       *)
(* JavaScript constructor does, and Exec runs it with JavaScript's         *)
(* backtracking priorities (leftmost alternative, greedy quantifiers).     *)
(***************************************************************************)
EXTENDS Integers, Sequences, FiniteSets, TLC

(***************************************************************************)
(* Characters and strings                                                  *)
(***************************************************************************)
UpperChars ==
  <<"A","B","C","D","E","F","G","H","I","J","K","L","M",
    "N","O","P","Q","R","S","T","U","V","W","X","Y","Z">>

LowerChars ==
  <<"a","b","c","d","e","f","g","h","i","j","k","l","m",
    "n","o","p","q","r","s","t","u","v","w","x","y","z">>

DigitChars == <<"0","1","2","3","4","5","6","7","8","9">>

RECURSIVE IndexFrom(_, _, _)
IndexFrom(seq, x, i) ==
  IF i > Len(seq) THEN 0
  ELSE IF seq[i] = x THEN i
  ELSE IndexFrom(seq, x, i + 1)

\* position of x in seq, 0 when absent
IndexOf(seq, x) == IndexFrom(seq, x, 1)

IsDigit(c) == IndexOf(DigitChars, c) > 0

DigitVal(c) == IndexOf(DigitChars, c) - 1

\* String.prototype.toLowerCase on one character
LowerChar(c) ==
  IF IndexOf(UpperChars, c) > 0 THEN LowerChars[IndexOf(UpperChars, c)] ELSE c

toLowerCase(s) == [i \in 1..Len(s) |-> LowerChar(s[i])]

RECURSIVE Join(_, _)
\* Array.prototype.join
Join(ss, sep) ==
  IF ss = <<>> THEN <<>>
  ELSE IF Len(ss) = 1 THEN ss[1]
  ELSE ss[1] \o sep \o Join(Tail(ss), sep)

(***************************************************************************)
(* JavaScript values held in the raw field map and the resolved field set  *)
(***************************************************************************)
Num(n) == [t |-> "num", n |-> n, s |-> <<>>]

NaN == [t |-> "nan", n |-> 0, s |-> <<>>]

Str(s) == [t |-> "str", n |-> 0, s |-> s]

Undefined == [t |-> "undefined", n |-> 0, s |-> <<>>]

isUndefined(v) == v.t = "undefined"

RECURSIVE DigitsValue(_, _, _)
\* value of the longest run of digits of s starting at i, continuing acc
DigitsValue(s, i, acc) ==
  IF i > Len(s) \/ ~IsDigit(s[i]) THEN acc
  ELSE DigitsValue(s, i + 1, 10 * acc + DigitVal(s[i]))

RECURSIVE SkipSpaces(_, _)
SkipSpaces(s, i) ==
  IF i <= Len(s) /\ s[i] = " " THEN SkipSpaces(s, i + 1) ELSE i

\* parseInt of a capture: leading blanks, an optional sign, then the longest
\* digit prefix; NaN when there is no digit there (or the capture is undefined)
ParseIntFrom(s, j) ==
  IF j <= Len(s) /\ s[j] \in {"+", "-"}
  THEN IF j + 1 > Len(s) \/ ~IsDigit(s[j + 1]) THEN NaN
       ELSE IF s[j] = "-" THEN Num(0 - DigitsValue(s, j + 1, 0))
       ELSE Num(DigitsValue(s, j + 1, 0))
  ELSE IF j > Len(s) \/ ~IsDigit(s[j]) THEN NaN
       ELSE Num(DigitsValue(s, j, 0))

parseInt(cap) == IF ~cap.def THEN NaN ELSE ParseIntFrom(cap.s, SkipSpaces(cap.s, 1))

(***************************************************************************)
(* Regular expressions: syntax trees                                       *)
(***************************************************************************)
Chr(c) == <<"chr", c>>

AnyChar == <<"any">>

DigitClass == <<"digit">>

Cls(chars) == <<"cls", chars>>

Cat(nodes) == <<"cat", nodes>>

Alt(nodes) == <<"alt", nodes>>

\* max = -1: no upper limit
Rep(node, min, max, greedy) == <<"rep", node, min, max, greedy>>

Group(node) == <<"group", node>>

NonCapture(node) == <<"noncapture", node>>

\* /\d{lo,hi}/
Digits(lo, hi) == Rep(DigitClass, lo, hi, TRUE)

RECURSIVE NumGroups(_), NumGroupsSeq(_, _)
\* the number of capturing groups of a tree
NumGroups(node) ==
  CASE node[1] = "group" -> 1 + NumGroups(node[2])
    [] node[1] = "noncapture" -> NumGroups(node[2])
    [] node[1] = "rep" -> NumGroups(node[2])
    [] node[1] \in {"cat", "alt"} -> NumGroupsSeq(node[2], 1)
    [] OTHER -> 0

NumGroupsSeq(nodes, i) ==
  IF i > Len(nodes) THEN 0
  ELSE NumGroups(nodes[i]) + NumGroupsSeq(nodes, i + 1)

(***************************************************************************)
(* new RegExp(source): the parser.  It covers the pattern syntax that the  *)
(* sources built by literal and oneOf can hold: characters, '.', '\'       *)
(* escapes, the quantifiers * + ? (and their lazy forms), groups and '|'.  *)
(* A source the constructor rejects (SyntaxError) parses to ok = FALSE.    *)
(***************************************************************************)
ParseError == [ok |-> FALSE, node |-> <<"error">>, pos |-> 0]

Parsed(node, pos) == [ok |-> TRUE, node |-> node, pos |-> pos]

QuantifierChars == {"*", "+", "?"}

\* a quantifier followed by '?' is lazy
IsLazy(src, pos) == pos + 1 <= Len(src) /\ src[pos + 1] = "?"

\* an optional quantifier after the atom that ends before pos
ParseQuantifier(src, pos, atom) ==
  IF pos > Len(src) \/ src[pos] \notin QuantifierChars THEN Parsed(atom, pos)
  ELSE Parsed(Rep(atom,
                  IF src[pos] = "+" THEN 1 ELSE 0,
                  IF src[pos] = "?" THEN 1 ELSE -1,
                  ~IsLazy(src, pos)),
              IF IsLazy(src, pos) THEN pos + 2 ELSE pos + 1)

RECURSIVE ParseDisjunction(_, _, _), ParseAlternative(_, _, _), ParseAtom(_, _),
          CloseGroup(_, _, _), AfterAtom(_, _, _), AfterTerm(_, _, _),
          AfterAlternative(_, _, _)

\* "(?:" opens a group that does not capture
IsNonCapture(src, pos) ==
  pos + 2 <= Len(src) /\ src[pos + 1] = "?" /\ src[pos + 2] = ":"

\* Atom: '.', an escape, a group, or a pattern character
ParseAtom(src, pos) ==
  CASE src[pos] = "." -> Parsed(AnyChar, pos + 1)
    [] src[pos] = "\\" ->
         IF pos + 1 > Len(src) THEN ParseError       \* "\ at end of pattern"
         ELSE IF src[pos + 1] = "d" THEN Parsed(DigitClass, pos + 2)
         ELSE Parsed(Chr(src[pos + 1]), pos + 2)
    [] src[pos] = "(" ->
         IF IsNonCapture(src, pos)
         THEN CloseGroup(src, ParseDisjunction(src, pos + 3, <<>>), TRUE)
         ELSE CloseGroup(src, ParseDisjunction(src, pos + 1, <<>>), FALSE)
    [] src[pos] \in QuantifierChars -> ParseError     \* "Nothing to repeat"
    [] src[pos] = ")" -> ParseError                   \* "Unmatched ')'"
    [] OTHER -> Parsed(Chr(src[pos]), pos + 1)

\* the ')' after a group's disjunction d
CloseGroup(src, d, nc) ==
  IF ~d.ok \/ d.pos > Len(src) \/ src[d.pos] # ")"
  THEN ParseError                                     \* "Unterminated group"
  ELSE Parsed(IF nc THEN NonCapture(d.node) ELSE Group(d.node), d.pos + 1)

\* Alternative: terms up to the end, a '|' or a ')'
ParseAlternative(src, pos, terms) ==
  IF pos > Len(src) \/ src[pos] \in {"|", ")"} THEN Parsed(Cat(terms), pos)
  ELSE AfterAtom(src, ParseAtom(src, pos), terms)

AfterAtom(src, a, terms) ==
  IF ~a.ok THEN ParseError
  ELSE AfterTerm(src, ParseQuantifier(src, a.pos, a.node), terms)

AfterTerm(src, t, terms) == ParseAlternative(src, t.pos, Append(terms, t.node))

\* Disjunction: alternatives separated by '|'
ParseDisjunction(src, pos, alts) ==
  AfterAlternative(src, ParseAlternative(src, pos, <<>>), alts)

AfterAlternative(src, a, alts) ==
  IF ~a.ok THEN ParseError
  ELSE IF a.pos <= Len(src) /\ src[a.pos] = "|"
       THEN ParseDisjunction(src, a.pos + 1, Append(alts, a.node))
       ELSE Parsed(Alt(Append(alts, a.node)), a.pos)

\* the whole source must be one disjunction
WholeSource(src, d) ==
  IF d.ok /\ d.pos = Len(src) + 1 THEN [ok |-> TRUE, node |-> d.node]
  ELSE [ok |-> FALSE, node |-> <<"error">>]

\* new RegExp(src): [ok, node]; ok = FALSE is a thrown SyntaxError
RegExp(src) == WholeSource(src, ParseDisjunction(src, 1, <<>>))

(***************************************************************************)
(* Matching.  MatchNode gives every way node can match s from pos, as a    *)
(* sequence of [pos, caps] in the order JavaScript's backtracking tries    *)
(* them; base is the number of capturing groups opened before node.        *)
(* Letters compare case-insensitively (the 'i' flag of explainFromTokens). *)
(***************************************************************************)
NoCapture == [def |-> FALSE, s |-> <<>>]

Capture(s) == [def |-> TRUE, s |-> s]

RECURSIVE MatchNode(_, _, _, _, _), MatchCat(_, _, _, _, _, _),
          MatchCatEach(_, _, _, _, _, _), MatchAlt(_, _, _, _, _, _),
          MatchRep(_, _, _, _, _, _), MatchRepEach(_, _, _, _, _, _, _),
          MarkGroup(_, _, _, _, _)

OneChar(ok, pos, caps) ==
  IF ok THEN << [pos |-> pos + 1, caps |-> caps] >> ELSE <<>>

MatchNode(node, base, s, pos, caps) ==
  CASE node[1] = "chr" ->
         OneChar(pos <= Len(s) /\ LowerChar(s[pos]) = LowerChar(node[2]), pos, caps)
    [] node[1] = "any" -> OneChar(pos <= Len(s), pos, caps)
    [] node[1] = "digit" -> OneChar(pos <= Len(s) /\ IsDigit(s[pos]), pos, caps)
    [] node[1] = "cls" ->
         OneChar(pos <= Len(s) /\ LowerChar(s[pos]) \in node[2], pos, caps)
    [] node[1] = "cat" -> MatchCat(node[2], 1, base, s, pos, caps)
    [] node[1] = "alt" -> MatchAlt(node[2], 1, base, s, pos, caps)
    [] node[1] = "rep" -> MatchRep(node, 0, base, s, pos, caps)
    [] node[1] = "noncapture" -> MatchNode(node[2], base, s, pos, caps)
    [] node[1] = "group" ->
         MarkGroup(MatchNode(node[2], base + 1, s, pos, caps), 1, base + 1, s, pos)

\* every result rs[i..] with capture idx set to the text matched from pos
MarkGroup(rs, i, idx, s, pos) ==
  IF i > Len(rs) THEN <<>>
  ELSE << [pos |-> rs[i].pos,
           caps |-> [rs[i].caps EXCEPT ![idx] = Capture(SubSeq(s, pos, rs[i].pos - 1))]] >>
       \o MarkGroup(rs, i + 1, idx, s, pos)

\* nodes[k..] in sequence
MatchCat(nodes, k, base, s, pos, caps) ==
  IF k > Len(nodes) THEN << [pos |-> pos, caps |-> caps] >>
  ELSE MatchCatEach(MatchNode(nodes[k], base, s, pos, caps), 1, nodes, k, base, s)

MatchCatEach(rs, i, nodes, k, base, s) ==
  IF i > Len(rs) THEN <<>>
  ELSE MatchCat(nodes, k + 1, base + NumGroups(nodes[k]), s, rs[i].pos, rs[i].caps)
       \o MatchCatEach(rs, i + 1, nodes, k, base, s)

\* nodes[k..] as alternatives, leftmost first
MatchAlt(nodes, k, base, s, pos, caps) ==
  IF k > Len(nodes) THEN <<>>
  ELSE MatchNode(nodes[k], base, s, pos, caps)
       \o MatchAlt(nodes, k + 1, base + NumGroups(nodes[k]), s, pos, caps)

\* the quantified node may end after count iterations
RepStop(rep, count, pos, caps) ==
  IF count >= rep[3] THEN << [pos |-> pos, caps |-> caps] >> ELSE <<>>

\* greedy: one more iteration is tried before stopping; lazy: after
RepOrder(greedy, more, stop) == IF greedy THEN more \o stop ELSE stop \o more

\* rep after count iterations; an iteration past the minimum must consume
MatchRep(rep, count, base, s, pos, caps) ==
  RepOrder(rep[5],
           IF rep[4] = -1 \/ count < rep[4]
           THEN MatchRepEach(MatchNode(rep[2], base, s, pos, caps), 1,
                             rep, count, base, s, pos)
           ELSE <<>>,
           RepStop(rep, count, pos, caps))

MatchRepEach(rs, i, rep, count, base, s, pos) ==
  IF i > Len(rs) THEN <<>>
  ELSE (IF rs[i].pos > pos \/ count < rep[3]
        THEN MatchRep(rep, count + 1, base, s, rs[i].pos, rs[i].caps)
        ELSE <<>>)
       \o MatchRepEach(rs, i + 1, rep, count, base, s, pos)

RECURSIVE FirstWhole(_, _, _)
FirstWhole(rs, i, n) ==
  IF i > Len(rs) THEN 0
  ELSE IF rs[i].pos = n + 1 THEN i
  ELSE FirstWhole(rs, i + 1, n)

\* String.prototype.match with the pattern ^node$: null, or the array of the
\* whole match followed by the captures (index 1 is the array's element 0)
MatchArray(s, rs, k) ==
  IF k = 0 THEN [null |-> TRUE, groups |-> <<>>]
  ELSE [null |-> FALSE, groups |-> <<Capture(s)>> \o rs[k].caps]

FirstWholeOf(s, rs) == MatchArray(s, rs, FirstWhole(rs, 1, Len(s)))

Exec(node, s) ==
  FirstWholeOf(s, MatchNode(node, 0, s, 1, [g \in 1..NumGroups(node) |-> NoCapture]))

(***************************************************************************)
(* Format tokens (produced by Formatter.parseFormat): literal text, or a   *)
(* run of one symbol.  The codes unitate dispatches on:                    *)
(***************************************************************************)
Token ==
  [ G |-> <<"G">>,
    GG |-> <<"G", "G">>,
    y |-> <<"y">>,
    yy |-> <<"y", "y">>,
    yyyy |-> <<"y", "y", "y", "y">>,
    yyyyy |-> <<"y", "y", "y", "y", "y">>,
    yyyyyy |-> <<"y", "y", "y", "y", "y", "y">>,
    M |-> <<"M">>,
    MM |-> <<"M", "M">>,
    MMM |-> <<"M", "M", "M">>,
    MMMM |-> <<"M", "M", "M", "M">>,
    L |-> <<"L">>,
    LL |-> <<"L", "L">>,
    LLL |-> <<"L", "L", "L">>,
    LLLL |-> <<"L", "L", "L", "L">>,
    d |-> <<"d">>,
    dd |-> <<"d", "d">>,
    o |-> <<"o">>,
    ooo |-> <<"o", "o", "o">>,
    HH |-> <<"H", "H">>,
    H |-> <<"H">>,
    hh |-> <<"h", "h">>,
    h |-> <<"h">>,
    mm |-> <<"m", "m">>,
    m |-> <<"m">>,
    s |-> <<"s">>,
    ss |-> <<"s", "s">>,
    S |-> <<"S">>,
    SSS |-> <<"S", "S", "S">>,
    u |-> <<"u">>,
    a |-> <<"a">>,
    kkkk |-> <<"k", "k", "k", "k">>,
    kk |-> <<"k", "k">>,
    W |-> <<"W">>,
    WW |-> <<"W", "W">>,
    E |-> <<"E">>,
    c |-> <<"c">>,
    EEE |-> <<"E", "E", "E">>,
    EEEE |-> <<"E", "E", "E", "E">>,
    ccc |-> <<"c", "c", "c">>,
    cccc |-> <<"c", "c", "c", "c">>,
    Z |-> <<"Z">>,
    ZZ |-> <<"Z", "Z">>,
    ZZZ |-> <<"Z", "Z", "Z">>,
    z |-> <<"z">> ]

Sym(val) == [literal |-> FALSE, val |-> val]

Lit(val) == [literal |-> TRUE, val |-> val]

(***************************************************************************)
(* The locale: each enumeration is a list of strings, or null when the     *)
(* runtime cannot produce it.                                              *)
(***************************************************************************)
Null == [null |-> TRUE, list |-> <<>>]

List(l) == [null |-> FALSE, list |-> l]

eras(loc, length) == loc.eras[length]

months(loc, length, format) == loc.months[length][format]

weekdays(loc, length, format) == loc.weekdays[length][format]

meridiems(loc) == loc.meridiems

(***************************************************************************)
(* Collaborators from ./util, outside this file                            *)
(***************************************************************************)
\* the two-digit-year expansion; NaN stays NaN
untruncateYear(v) ==
  IF v.t # "num" THEN NaN
  ELSE IF v.n > 99 THEN v
  ELSE IF v.n > 60 THEN Num(1900 + v.n)
  ELSE Num(2000 + v.n)

\* x || 0
OrZero(v) == IF v.t = "num" THEN v.n ELSE 0

OffsetMinutes(offHour, offMin) ==
  Num(offHour * 60 + (IF offHour < 0 THEN 0 - offMin ELSE offMin))

\* "+05", "30" -> 330; "-08", "00" -> -480
signedOffset(h, m) == OffsetMinutes(OrZero(parseInt(h)), OrZero(parseInt(m)))

\* "5" -> 500, "05" -> 50, "500" -> 500, "1234" -> 123
MilliDigit(s, j) == IF j <= Len(s) /\ IsDigit(s[j]) THEN DigitVal(s[j]) ELSE 0

parseMillis(v) ==
  IF v.t # "str" THEN NaN
  ELSE Num(100 * MilliDigit(v.s, 1) + 10 * MilliDigit(v.s, 2) + MilliDigit(v.s, 3))

(***************************************************************************)
(* Match units                                                             *)
(***************************************************************************)
MISSING_FTP == "missing Intl.DateTimeFormat.formatToParts support"

\* a unit descriptor; groups = 0 stands for an absent groups property
Unit(regex, deser, post, strings, startIndex, groups, literal) ==
  [regex |-> regex, deser |-> deser, post |-> post, strings |-> strings,
   startIndex |-> startIndex, groups |-> groups, literal |-> literal,
   token |-> Undefined]

\* what a unit constructor gives: a unit, null, or a thrown SyntaxError
Made(unit) == [st |-> "unit", unit |-> unit]

MadeNull == [st |-> "null", unit |-> Undefined]

Thrown == [st |-> "throw", unit |-> Undefined]

intUnit(regex, post) == Made(Unit(regex, "int", post, <<>>, 0, 0, FALSE))

RECURSIVE ReplaceFirst(_, _, _)
\* String.prototype.replace with a one-character, non-global pattern
ReplaceFirst(s, c, by) ==
  IF s = <<>> THEN <<>>
  ELSE IF Head(s) = c THEN by \o Tail(s)
  ELSE <<Head(s)>> \o ReplaceFirst(Tail(s), c, by)

fixListRegex(s) == ReplaceFirst(s, ".", <<"\\", ".", "?">>)

stripInsensitivities(s) == toLowerCase(ReplaceFirst(s, ".", <<>>))

RECURSIVE FindIndexFrom(_, _, _)
FindIndexFrom(strings, norm, i) ==
  IF i > Len(strings) THEN -1
  ELSE IF stripInsensitivities(strings[i]) = norm THEN i - 1
  ELSE FindIndexFrom(strings, norm, i + 1)

\* strings.findIndex(i => stripInsensitivities(s) === stripInsensitivities(i))
findIndex(strings, s) == FindIndexFrom(strings, stripInsensitivities(s), 1)

\* a unit around a constructed RegExp, or the constructor's SyntaxError
WithRegExp(re, deser, strings, startIndex, isLiteral) ==
  IF ~re.ok THEN Thrown
  ELSE Made(Unit(re.node, deser, "none", strings, startIndex, 0, isLiteral))

oneOf(strings, startIndex) ==
  IF strings.null THEN MadeNull
  ELSE WithRegExp(RegExp(Join([j \in 1..Len(strings.list) |->
                                 fixListRegex(strings.list[j])], <<"|">>)),
                  "oneOf", strings.list, startIndex, FALSE)

offset(regex, groups) == Made(Unit(regex, "offset", "none", <<>>, 0, groups, FALSE))

simple(regex) == Made(Unit(regex, "simple", "none", <<>>, 0, 0, FALSE))

literal(t) == WithRegExp(RegExp(t.val), "simple", <<>>, 0, TRUE)

\* /([+-]\d{1,2})(?::(\d{2}))?/
OffsetColonRegex ==
  Cat(<< Group(Cat(<<Cls({"+", "-"}), Digits(1, 2)>>)),
         Rep(NonCapture(Cat(<<Chr(":"), Group(Digits(2, 2))>>)), 0, 1, TRUE) >>)

\* /([+-]\d{1,2})(\d{2})?/
OffsetBareRegex ==
  Cat(<< Group(Cat(<<Cls({"+", "-"}), Digits(1, 2)>>)),
         Rep(Group(Digits(2, 2)), 0, 1, TRUE) >>)

\* the class [A-Za-z_], compared on lower-cased characters
ZoneChars == {LowerChars[i] : i \in 1..Len(LowerChars)} \cup {"_"}

\* /[A-Za-z_]{1,256}\/[A-Za-z_]{1,256}/
ZoneNameRegex ==
  Cat(<< Rep(Cls(ZoneChars), 1, 256, TRUE), Chr("/"), Rep(Cls(ZoneChars), 1, 256, TRUE) >>)

UnitateSymbol(token, v, loc) ==
  CASE v = Token.G -> oneOf(eras(loc, "short"), 0)
    [] v = Token.GG -> oneOf(eras(loc, "long"), 0)
    [] v = Token.y -> intUnit(Digits(1, 6), "none")
    [] v = Token.yy -> intUnit(Digits(2, 4), "untruncateYear")
    [] v = Token.yyyy -> intUnit(Digits(4, 4), "none")
    [] v = Token.yyyyy -> intUnit(Digits(4, 6), "none")
    [] v = Token.yyyyyy -> intUnit(Digits(6, 6), "none")
    [] v = Token.M -> intUnit(Digits(1, 2), "none")
    [] v = Token.MM -> intUnit(Digits(2, 2), "none")
    [] v = Token.MMM -> oneOf(months(loc, "short", FALSE), 1)
    [] v = Token.MMMM -> oneOf(months(loc, "long", FALSE), 1)
    [] v = Token.L -> intUnit(Digits(1, 2), "none")
    [] v = Token.LL -> intUnit(Digits(2, 2), "none")
    [] v = Token.LLL -> oneOf(months(loc, "short", TRUE), 1)
    [] v = Token.LLLL -> oneOf(months(loc, "long", TRUE), 1)
    [] v = Token.d -> intUnit(Digits(1, 2), "none")
    [] v = Token.dd -> intUnit(Digits(2, 2), "none")
    [] v = Token.o -> intUnit(Digits(1, 3), "none")
    [] v = Token.ooo -> intUnit(Digits(3, 3), "none")
    [] v = Token.HH -> intUnit(Digits(2, 2), "none")
    [] v = Token.H -> intUnit(Digits(1, 2), "none")
    [] v = Token.hh -> intUnit(Digits(2, 2), "none")
    [] v = Token.h -> intUnit(Digits(1, 2), "none")
    [] v = Token.mm -> intUnit(Digits(2, 2), "none")
    [] v = Token.m -> intUnit(Digits(1, 2), "none")
    [] v = Token.s -> intUnit(Digits(1, 2), "none")
    [] v = Token.ss -> intUnit(Digits(2, 2), "none")
    [] v = Token.S -> intUnit(Digits(1, 3), "none")
    [] v = Token.SSS -> intUnit(Digits(3, 3), "none")
    [] v = Token.u -> simple(Digits(1, 9))
    [] v = Token.a -> oneOf(meridiems(loc), 0)
    [] v = Token.kkkk -> intUnit(Digits(4, 4), "none")
    [] v = Token.kk -> intUnit(Digits(2, 4), "untruncateYear")
    [] v = Token.W -> intUnit(Digits(1, 2), "none")
    [] v = Token.WW -> intUnit(Digits(2, 2), "none")
    [] v = Token.E \/ v = Token.c -> intUnit(Digits(1, 1), "none")
    [] v = Token.EEE -> oneOf(weekdays(loc, "short", FALSE), 1)
    [] v = Token.EEEE -> oneOf(weekdays(loc, "long", FALSE), 1)
    [] v = Token.ccc -> oneOf(weekdays(loc, "short", TRUE), 1)
    [] v = Token.cccc -> oneOf(weekdays(loc, "long", TRUE), 1)
    [] v = Token.Z \/ v = Token.ZZ -> offset(OffsetColonRegex, 2)
    [] v = Token.ZZZ -> offset(OffsetBareRegex, 2)
    [] v = Token.z -> simple(ZoneNameRegex)
    [] OTHER -> literal(token)

unitate(token, loc) ==
  IF token.literal THEN literal(token) ELSE UnitateSymbol(token, token.val, loc)

\* unit || {invalidReason: MISSING_FTP}, then unit.token = token
OrInvalid(u, token) ==
  CASE u.st = "throw" -> [st |-> "throw", invalidReason |-> "", unit |-> Undefined]
    [] u.st = "null" -> [st |-> "invalid", invalidReason |-> MISSING_FTP, unit |-> Undefined]
    [] OTHER -> [st |-> "unit", invalidReason |-> "",
                 unit |-> [u.unit EXCEPT !.token = token]]

unitForToken(token, loc) == OrInvalid(unitate(token, loc), token)

\* a unit's deserializer applied to the slice of captures handed to it
Arg(args, i) == IF i <= Len(args) THEN args[i] ELSE NoCapture

Post(post, v) == IF post = "untruncateYear" THEN untruncateYear(v) ELSE v

Deser(unit, args) ==
  CASE unit.deser = "int" -> Post(unit.post, parseInt(Arg(args, 1)))
    [] unit.deser = "oneOf" ->
         IF ~Arg(args, 1).def THEN [t |-> "TypeError", n |-> 0, s |-> <<>>]
         ELSE Num(findIndex(unit.strings, Arg(args, 1).s) + unit.startIndex)
    [] unit.deser = "offset" -> signedOffset(Arg(args, 2), Arg(args, 3))
    [] OTHER -> IF Arg(args, 1).def THEN Str(Arg(args, 1).s) ELSE Undefined

(***************************************************************************)
(* JavaScript objects with string keys: entries in insertion order.  An    *)
(* assignment to an existing key keeps the key's place.                    *)
(***************************************************************************)
RECURSIVE KeyIndexFrom(_, _, _)
KeyIndexFrom(obj, k, i) ==
  IF i > Len(obj) THEN 0
  ELSE IF obj[i].k = k THEN i
  ELSE KeyIndexFrom(obj, k, i + 1)

KeyIndex(obj, k) == KeyIndexFrom(obj, k, 1)

Has(obj, k) == KeyIndex(obj, k) > 0

\* obj[k], undefined when the key is absent
Get(obj, k) == IF Has(obj, k) THEN obj[KeyIndex(obj, k)].v ELSE Undefined

\* a variant of Set that moves an assigned key to the end of the key order
Set_reinsert(obj, k, v) ==
  Append(SelectSeq(obj, LAMBDA e : e.k # k), [k |-> k, v |-> v])

\* obj[k] = v
Set(obj, k, v) ==
  IF Has(obj, k) THEN [obj EXCEPT ![KeyIndex(obj, k)].v = v]
  ELSE Append(obj, [k |-> k, v |-> v])

(***************************************************************************)
(* buildRegex and match                                                    *)
(***************************************************************************)
\* `^${re}$` with re the units' sources, each wrapped in ( ); Exec anchors
buildRegex(units) == Cat([j \in 1..Len(units) |-> Group(units[j].regex)])

\* h.groups ? h.groups + 1 : 1
GroupsOf(h) == IF h.groups # 0 THEN h.groups + 1 ELSE 1

RECURSIVE MatchIndexAt(_, _)
\* matchIndex when the loop of match reaches handlers[j]
MatchIndexAt(handlers, j) ==
  IF j = 1 THEN 1
  ELSE MatchIndexAt(handlers, j - 1) + GroupsOf(handlers[j - 1])

\* Array.prototype.slice(from, to) of the match array (element 0 at index 1)
Slice(arr, from, to) ==
  LET lo == from + 1
      hi == IF to < Len(arr) THEN to ELSE Len(arr)
  IN  IF lo > hi THEN <<>> ELSE SubSeq(arr, lo, hi)

SliceGroups(arr, matchIndex, groups) == Slice(arr, matchIndex, matchIndex + groups)

\* h.deser(matches.slice(matchIndex, matchIndex + groups)) for handlers[j]
DeserAt(handlers, j, arr) ==
  Deser(handlers[j],
        SliceGroups(arr, MatchIndexAt(handlers, j), GroupsOf(handlers[j])))

RECURSIVE MatchLoop(_, _, _, _)
\* the for loop of match from handlers[j] on
MatchLoop(handlers, j, arr, all) ==
  IF j > Len(handlers) THEN all
  ELSE MatchLoop(handlers, j + 1, arr,
                 IF ~handlers[j].literal
                 THEN Set(all, handlers[j].token.val[1], DeserAt(handlers, j, arr))
                 ELSE all)

\* a deserializer of the loop throws (an enumeration handed an undefined capture)
LoopThrows(handlers, arr) ==
  \E j \in 1..Len(handlers) :
    ~handlers[j].literal /\ DeserAt(handlers, j, arr).t = "TypeError"

\* the body of match, m being input.match(regex)
MatchResult(m, handlers) ==
  IF ~m.null
  THEN [matches |-> m, all |-> MatchLoop(handlers, 1, m.groups, <<>>),
        throws |-> LoopThrows(handlers, m.groups)]
  ELSE [matches |-> m, all |-> <<>>, throws |-> FALSE]

\* match(input, regex, handlers): [matches, all] or [null, {}]
match(in, re, handlers) == MatchResult(Exec(re, in), handlers)

(***************************************************************************)
(* dateTimeFromMatches                                                     *)
(***************************************************************************)
toField(token) ==
  CASE token = "S" -> "millisecond"
    [] token = "s" -> "second"
    [] token = "m" -> "minute"
    [] token \in {"h", "H"} -> "hour"
    [] token = "d" -> "day"
    [] token = "o" -> "ordinal"
    [] token \in {"L", "M"} -> "month"
    [] token = "y" -> "year"
    [] token \in {"E", "c"} -> "weekday"
    [] token = "W" -> "weekNumber"
    [] token = "k" -> "weekYear"
    [] OTHER -> "null"

NullZone == [st |-> "null", kind |-> "", v |-> Undefined]

FixedOffsetZone(v) == [st |-> "val", kind |-> "FixedOffsetZone", v |-> v]

IANAZone(v) == [st |-> "val", kind |-> "IANAZone", v |-> v]

ZoneOf(matches) ==
  IF ~isUndefined(Get(matches, "Z")) THEN FixedOffsetZone(Get(matches, "Z"))
  ELSE IF ~isUndefined(Get(matches, "z")) THEN IANAZone(Get(matches, "z"))
  ELSE NullZone

\* v < n and v === n for a number n
Less(v, n) == v.t = "num" /\ v.n < n

StrictEq(v, n) == v.t = "num" /\ v.n = n

Truthy(v) ==
  CASE v.t = "num" -> v.n # 0
    [] v.t = "str" -> v.s # <<>>
    [] OTHER -> FALSE

\* x + n and -x
Plus(v, n) == IF v.t = "num" THEN Num(v.n + n) ELSE NaN

Negate(v) == IF v.t = "num" THEN Num(0 - v.n) ELSE NaN

\* the 12-hour adjustment
\* a variant of AdjustHour whose PM test reads h <= 12 in place of h < 12
AdjustHour_noon(matches) ==
  IF ~isUndefined(Get(matches, "h"))
  THEN IF Less(Get(matches, "h"), 13) /\ StrictEq(Get(matches, "a"), 1)
       THEN Set(matches, "h", Plus(Get(matches, "h"), 12))
       ELSE IF StrictEq(Get(matches, "h"), 12) /\ StrictEq(Get(matches, "a"), 0)
       THEN Set(matches, "h", Num(0))
       ELSE matches
  ELSE matches

AdjustHour(matches) ==
  IF ~isUndefined(Get(matches, "h"))
  THEN IF Less(Get(matches, "h"), 12) /\ StrictEq(Get(matches, "a"), 1)
       THEN Set(matches, "h", Plus(Get(matches, "h"), 12))
       ELSE IF StrictEq(Get(matches, "h"), 12) /\ StrictEq(Get(matches, "a"), 0)
       THEN Set(matches, "h", Num(0))
       ELSE matches
  ELSE matches

\* the era adjustment
AdjustEra(matches) ==
  IF StrictEq(Get(matches, "G"), 0) /\ Truthy(Get(matches, "y"))
  THEN Set(matches, "y", Negate(Get(matches, "y")))
  ELSE matches

\* the sub-second conversion
AdjustMillis(matches) ==
  IF ~isUndefined(Get(matches, "u"))
  THEN Set(matches, "S", parseMillis(Get(matches, "u")))
  ELSE matches

RECURSIVE ReduceFields(_, _, _)
\* Object.keys(matches).reduce(...) from entry j on
ReduceFields(matches, j, r) ==
  IF j > Len(matches) THEN r
  ELSE ReduceFields(matches, j + 1,
                    IF toField(matches[j].k) # "null"
                    THEN Set(r, toField(matches[j].k), matches[j].v)
                    ELSE r)

Resolved(matches, after) ==
  [vals |-> ReduceFields(after, 1, <<>>), zone |-> ZoneOf(matches), matches |-> after]

\* [vals, zone], and the argument object as the function leaves it
dateTimeFromMatches(matches) ==
  Resolved(matches, AdjustMillis(AdjustEra(AdjustHour(matches))))

(***************************************************************************)
(* The inputs of a run: a locale, a format (its token list) and an input   *)
(***************************************************************************)
BothFormats(l) == [format \in BOOLEAN |-> l]

\* abbreviations carry periods (as in "a.m.", "janv.")
LocDotted ==
  [eras |-> [short |-> List(<<<<"B", ".", "C", ".">>, <<"A", ".", "D", ".">>>>), long |-> List(<<<<"B", "e", "f", "o", "r", "e", " ", "C", "h", "r", "i", "s", "t">>, <<"A", "n", "n", "o", " ", "D", "o", "m", "i", "n", "i">>>>)],
   months |-> [short |-> BothFormats(List(<<<<"J", "a", "n", ".">>, <<"F", "e", "b", ".">>, <<"M", "a", "r", ".">>>>)),
               long |-> BothFormats(List(<<<<"J", "a", "n", "u", "a", "r", "y">>, <<"F", "e", "b", "r", "u", "a", "r", "y">>, <<"M", "a", "r", "c", "h">>>>))],
   weekdays |-> [short |-> BothFormats(List(<<<<"M", "o", "n", ".">>, <<"T", "u", "e", ".">>>>)),
                 long |-> BothFormats(List(<<<<"M", "o", "n", "d", "a", "y">>, <<"T", "u", "e", "s", "d", "a", "y">>>>))],
   meridiems |-> List(<<<<"a", ".", "m", ".">>, <<"p", ".", "m", ".">>>>)]

\* no periods, and no weekday names
LocPlain ==
  [eras |-> [short |-> List(<<<<"B", "C">>, <<"A", "D">>>>), long |-> List(<<<<"B", "C">>, <<"A", "D">>>>)],
   months |-> [short |-> BothFormats(List(<<<<"J", "a", "n">>, <<"F", "e", "b">>, <<"M", "a", "r">>>>)),
               long |-> BothFormats(List(<<<<"J", "a", "n", "u", "a", "r", "y">>, <<"F", "e", "b", "r", "u", "a", "r", "y">>, <<"M", "a", "r", "c", "h">>>>))],
   weekdays |-> [short |-> BothFormats(Null), long |-> BothFormats(Null)],
   meridiems |-> List(<<<<"A", "M">>, <<"P", "M">>>>)]

\* a runtime without Intl.DateTimeFormat.formatToParts
LocNoFormatToParts ==
  [eras |-> [short |-> Null, long |-> Null],
   months |-> [short |-> BothFormats(Null), long |-> BothFormats(Null)],
   weekdays |-> [short |-> BothFormats(Null), long |-> BothFormats(Null)],
   meridiems |-> Null]

Locales == {"dotted", "plain", "noFormatToParts"}

Locale(name) ==
  CASE name = "dotted" -> LocDotted
    [] name = "plain" -> LocPlain
    [] OTHER -> LocNoFormatToParts

Formats ==
  { <<>>,
    <<Sym(Token.MM), Sym(<<"-">>), Sym(Token.dd)>>,
    <<Sym(Token.yyyy)>>,
    <<Sym(Token.MM), Sym(<<".">>)>>,
    <<Sym(Token.h), Sym(Token.a)>>,
    <<Sym(Token.h), Sym(Token.H), Sym(Token.a)>>,
    <<Sym(Token.H), Sym(Token.h)>>,
    <<Sym(Token.hh), Sym(Token.HH), Sym(Token.h)>>,
    <<Sym(Token.M), Sym(Token.L), Sym(Token.M)>>,
    <<Sym(Token.L), Sym(Token.MM)>>,
    <<Sym(Token.MMM), Sym(Token.M)>>,
    <<Sym(Token.E), Sym(Token.c), Sym(Token.E)>>,
    <<Sym(Token.EEE), Sym(Token.E)>>,
    <<Lit(<<".">>)>>,
    <<Lit(<<"a">>)>>,
    <<Lit(<<"(">>)>>,
    <<Lit(<<"+">>)>>,
    <<Lit(<<"a", "+">>)>>,
    <<Lit(<<"(", "a", ")">>)>>,
    <<Sym(<<"(">>), Sym(Token.dd), Sym(<<")">>)>>,
    <<Lit(<<"(", "a", ")">>), Sym(Token.MM)>>,
    <<Lit(<<".", "+">>), Sym(Token.MM)>>,
    <<Sym(Token.MMM)>>,
    <<Sym(Token.LLLL)>>,
    <<Sym(Token.a)>>,
    <<Sym(Token.cccc)>>,
    <<Sym(Token.G), Sym(Token.y)>>,
    <<Sym(Token.GG), Sym(Token.yy)>>,
    <<Sym(<<"(">>), Sym(Token.MMM)>>,
    <<Sym(Token.MM), Sym(Token.EEE)>>,
    <<Sym(Token.MMM), Sym(Token.EEE)>>,
    <<Sym(Token.S), Sym(<<".">>), Sym(Token.u)>>,
    <<Sym(Token.u), Sym(Token.SSS)>>,
    <<Sym(Token.HH), Sym(Token.Z)>>,
    <<Sym(Token.ZZZ)>>,
    <<Sym(Token.z)>>,
    <<Sym(Token.kk), Sym(Token.W)>>,
    <<Sym(Token.ooo)>> }

\* String.prototype.toUpperCase
UpperChar(c) ==
  IF IndexOf(LowerChars, c) > 0 THEN UpperChars[IndexOf(LowerChars, c)] ELSE c

toUpperCase(s) == [j \in 1..Len(s) |-> UpperChar(s[j])]

RECURSIVE RemovePeriods(_)
RemovePeriods(s) ==
  IF s = <<>> THEN <<>>
  ELSE IF Head(s) = "." THEN RemovePeriods(Tail(s))
  ELSE <<Head(s)>> \o RemovePeriods(Tail(s))

\* a candidate in its own, upper and lower case, its periods kept or removed
Spellings(cand) ==
  UNION {{c, RemovePeriods(c)} : c \in {cand, toUpperCase(cand), toLowerCase(cand)}}

\* texts tried at the place of a token: what its unit should accept, and near misses
IntPieces == {<<"1">>, <<"1", "2">>, <<"1", "2", "3">>, <<"2", "0", "2", "3">>}

OffsetPieces == {<<"+", "0", "5", ":", "3", "0">>, <<"-", "0", "8", "0", "0">>, <<"+", "5">>}

ZonePieces == {<<"a", "/", "b">>, <<"x">>}

EnumPieces(strings) ==
  UNION {Spellings(strings[j]) : j \in 1..Len(strings)}
    \cup {SubSeq(strings[1], 1, Len(strings[1]) - 1) \o <<"x">>}

LiteralPieces(val) == {val, <<"x">>, <<"a">>, <<"A">>}

PiecesOf(u, token) ==
  CASE u.st # "unit" -> {<<"x">>}
    [] u.unit.literal -> LiteralPieces(token.val)
    [] u.unit.deser = "oneOf" -> EnumPieces(u.unit.strings)
    [] u.unit.deser = "offset" -> OffsetPieces
    [] token.val = Token.z -> ZonePieces
    [] OTHER -> IntPieces

PiecesFor(token, loc) == PiecesOf(unitate(token, loc), token)

\* the number of characters an input may carry after its last piece
MaxExtra == 1

ExtraChars == {"x", "1"}

RECURSIVE Extras(_)
Extras(n) ==
  IF n = 0 THEN {<<>>}
  ELSE Extras(n - 1) \cup {Append(e, c) : e \in Extras(n - 1), c \in ExtraChars}

RECURSIVE InputsFrom(_, _, _)
InputsFrom(toks, j, loc) ==
  IF j > Len(toks) THEN Extras(MaxExtra)
  ELSE {p \o r : p \in PiecesFor(toks[j], loc), r \in InputsFrom(toks, j + 1, loc)}

Inputs(toks, loc) == InputsFrom(toks, 1, loc)

(***************************************************************************)
(* One call of parseFromTokens(locale, input, format)                      *)
(***************************************************************************)
VARIABLES
  locale,         \* the locale argument (its name; Locale gives its lists)
  input,          \* the input string
  tokens,         \* Formatter.parseFormat(format)
  i,              \* the loop index of explainFromTokens (first token: 1)
  units,          \* the units compiled so far
  pc,             \* "compile", "match", "resolve", "returned", "parsed", "thrown"
  regex,          \* the properties of the object explainFromTokens returns ...
  rawMatches,
  matches,
  result,
  zone,
  invalidReason,
  deserialized,   \* history: the raw field map as match returned it
  parsed          \* what parseFromTokens returns

vars == <<locale, input, tokens, i, units, pc, regex, rawMatches, matches,
          result, zone, invalidReason, deserialized, parsed>>

Absent == [st |-> "absent"]

Init ==
  /\ locale \in Locales
  /\ tokens \in Formats
  /\ input \in Inputs(tokens, Locale(locale))
  /\ i = 1
  /\ units = <<>>
  /\ pc = "compile"
  /\ regex = Absent
  /\ rawMatches = Absent
  /\ matches = Absent
  /\ result = Absent
  /\ zone = Absent
  /\ invalidReason = Absent
  /\ deserialized = Absent
  /\ parsed = Absent

\* one round of the loop of explainFromTokens
UnitForToken ==
  /\ pc = "compile"
  /\ i <= Len(tokens)
  /\ \E u \in {unitForToken(tokens[i], Locale(locale))} :
     IF u.st = "throw"
     THEN /\ pc' = "thrown"
          /\ UNCHANGED <<i, units, invalidReason>>
     ELSE IF u.st = "invalid"
     THEN /\ pc' = "returned"
          /\ invalidReason' = [st |-> "val", v |-> u.invalidReason]
          /\ UNCHANGED <<i, units>>
     ELSE /\ units' = Append(units, u.unit)
          /\ i' = i + 1
          /\ UNCHANGED <<pc, invalidReason>>
  /\ UNCHANGED <<locale, input, tokens, regex, rawMatches, matches, result, zone,
                 deserialized, parsed>>

\* buildRegex(units) and RegExp(regexString, 'i')
BuildRegex ==
  /\ pc = "compile"
  /\ i > Len(tokens)
  /\ regex' = [st |-> "val", node |-> buildRegex(units)]
  /\ pc' = "match"
  /\ UNCHANGED <<locale, input, tokens, i, units, rawMatches, matches, result, zone,
                 invalidReason, deserialized, parsed>>

\* match(input, regex, handlers)
Match ==
  /\ pc = "match"
  /\ \E m \in {match(input, regex.node, units)} :
     IF m.throws
     THEN /\ pc' = "thrown"
          /\ UNCHANGED <<rawMatches, matches, deserialized>>
     ELSE /\ rawMatches' = IF m.matches.null THEN [st |-> "null", groups |-> <<>>]
                           ELSE [st |-> "val", groups |-> m.matches.groups]
          /\ matches' = [st |-> "object", map |-> m.all]
          /\ deserialized' = [st |-> "object", map |-> m.all]
          /\ pc' = "resolve"
  /\ UNCHANGED <<locale, input, tokens, i, units, regex, result, zone, invalidReason,
                 parsed>>

\* the truth value of `matches` in the conditional of explainFromTokens
ToBoolean(obj) == obj.st \notin {"null", "undefined", "absent"}

\* matches ? dateTimeFromMatches(matches) : [null, null], and the return
Resolve ==
  /\ pc = "resolve"
  /\ IF ToBoolean(matches)
     THEN \E r \in {dateTimeFromMatches(matches.map)} :
          /\ result' = [st |-> "object", map |-> r.vals]
          /\ zone' = r.zone
          /\ matches' = [st |-> "object", map |-> r.matches]
     ELSE /\ result' = [st |-> "null", map |-> <<>>]
          /\ zone' = NullZone
          /\ UNCHANGED matches
  /\ pc' = "returned"
  /\ UNCHANGED <<locale, input, tokens, i, units, regex, rawMatches, invalidReason,
                 deserialized, parsed>>

\* parseFromTokens: [result, zone, invalidReason] of what explainFromTokens returned
ParseFromTokens ==
  /\ pc = "returned"
  /\ parsed' = [st |-> "val", result |-> result, zone |-> zone,
                invalidReason |-> invalidReason]
  /\ pc' = "parsed"
  /\ UNCHANGED <<locale, input, tokens, i, units, regex, rawMatches, matches, result,
                 zone, invalidReason, deserialized>>

Next == UnitForToken \/ BuildRegex \/ Match \/ Resolve \/ ParseFromTokens

Spec == Init /\ [][Next]_vars

(***************************************************************************)
(* Properties                                                              *)
(***************************************************************************)
\* explainFromTokens has returned
Returned == pc \in {"returned", "parsed"}

\* the input matched the assembled pattern / did not match it
Matched == rawMatches.st = "val"

NoMatch == rawMatches.st = "null"

\* token j needs an enumeration the locale does not have
NeedsMissingList(j) == unitate(tokens[j], Locale(locale)).st = "null"

RECURSIVE FirstMissingFrom(_)
FirstMissingFrom(j) ==
  IF j > Len(tokens) THEN 0
  ELSE IF NeedsMissingList(j) THEN j
  ELSE FirstMissingFrom(j + 1)

\* C1: when every token compiles and the input does not match the pattern,
\* explainFromTokens and parseFromTokens return a null result and a null
\* zone (not an empty field set).
C1_NoMatchGivesNull ==
  /\ (Returned /\ NoMatch) => (result.st = "null" /\ zone.st = "null")
  /\ (pc = "parsed" /\ NoMatch) => (parsed.result.st = "null" /\ parsed.zone.st = "null")

\* C2: when some token of the format needs an enumeration the locale returns
\* null for, explainFromTokens stops at the first such token and returns only
\* input, tokens and invalidReason: nothing is assembled or matched.
C2_MissingListStops ==
  FirstMissingFrom(1) > 0 =>
    /\ pc \notin {"thrown", "match", "resolve"}
    /\ i <= FirstMissingFrom(1)
    /\ Returned =>
         /\ i = FirstMissingFrom(1)
         /\ invalidReason.st = "val" /\ invalidReason.v = MISSING_FTP
         /\ regex.st = "absent" /\ rawMatches.st = "absent" /\ matches.st = "absent"
         /\ result.st = "absent" /\ zone.st = "absent"

\* C3: a format of one literal token compiles; an input equal to the literal
\* text matches, any other input does not, and the raw field map stays empty.
C3_LiteralMatchesItself ==
  (Len(tokens) = 1 /\ tokens[1].literal) =>
    /\ pc # "thrown"
    /\ Returned =>
         /\ input = tokens[1].val => Matched
         /\ input # tokens[1].val => NoMatch
         /\ matches.map = <<>>

\* the resolved hour the 12-hour rule gives for hour h and meridiem flag a
TwelveHour(h, a) ==
  IF Less(h, 12) /\ StrictEq(a, 1) THEN Plus(h, 12)
  ELSE IF StrictEq(h, 12) /\ StrictEq(a, 0) THEN Num(0)
  ELSE h

\* the raw field map holds a 12-hour value
HasHour == Returned /\ Matched /\ Has(deserialized.map, "h")

\* a 24-hour value was entered in the raw field map after the 12-hour value
LaterH ==
  /\ Has(deserialized.map, "H")
  /\ KeyIndex(deserialized.map, "H") > KeyIndex(deserialized.map, "h")

\* C4 as stated: whenever the raw field map holds an hour h (and a meridiem
\* flag a or none), the resolved hour is h + 12 for h < 12 and PM, 0 for h = 12
\* and AM, and h otherwise.
C4_TwelveHourAsStated ==
  HasHour =>
    Get(result.map, "hour") =
      TwelveHour(Get(deserialized.map, "h"), Get(deserialized.map, "a"))

\* C4 amended: the same, unless the map also holds a 24-hour value H entered
\* after h, which then is the resolved hour.
C4_TwelveHour ==
  HasHour =>
    Get(result.map, "hour") =
      IF LaterH THEN Get(deserialized.map, "H")
      ELSE TwelveHour(Get(deserialized.map, "h"), Get(deserialized.map, "a"))

\* C4 witness: 1 PM resolved to hour 13
C4_Witness ==
  /\ HasHour /\ ~LaterH
  /\ Get(deserialized.map, "h") = Num(1)
  /\ Get(deserialized.map, "a") = Num(1)
  /\ Get(result.map, "hour") = Num(13)

\* the format is one enumeration token
OneEnumeration ==
  /\ Len(tokens) = 1
  /\ Len(units) = 1
  /\ units[1].deser = "oneOf"

\* C5: for a format of one enumeration token, an input that is a candidate
\* in any letter case, with its periods kept or removed, matches and
\* deserializes to the candidate's position plus the origin index.
C5_SpellingsAccepted ==
  (OneEnumeration /\ Returned) =>
    \A j \in 1..Len(units[1].strings) :
      input \in Spellings(units[1].strings[j]) =>
        /\ Matched
        /\ Get(deserialized.map, tokens[1].val[1]) = Num(j - 1 + units[1].startIndex)

\* the width of a fixed-width integer token, 0 for every other token
FixedWidth(token) ==
  IF token.literal THEN 0
  ELSE CASE token.val \in {Token.yyyy, Token.kkkk} -> 4
         [] token.val = Token.yyyyyy -> 6
         [] token.val \in {Token.ooo, Token.SSS} -> 3
         [] token.val \in {Token.MM, Token.LL, Token.dd, Token.HH, Token.hh, Token.mm, Token.ss, Token.WW} -> 2
         [] OTHER -> 0

AllDigits(s) == \A k \in 1..Len(s) : IsDigit(s[k])

\* input[a+1..b] is a whole run of digits at the place of token j: the units
\* before j accept what precedes it and the units after j what follows
DigitsAtToken(j, a, b) ==
  /\ AllDigits(SubSeq(input, a + 1, b))
  /\ a = 0 \/ ~IsDigit(input[a])
  /\ b = Len(input) \/ ~IsDigit(input[b + 1])
  /\ ~Exec(buildRegex(SubSeq(units, 1, j - 1)), SubSeq(input, 1, a)).null
  /\ ~Exec(buildRegex(SubSeq(units, j + 1, Len(units))), SubSeq(input, b + 1, Len(input))).null

\* C6: an input matches the whole pattern only if it has exactly N digits at
\* the place of each fixed-width integer token of width N.
C6_FixedWidth ==
  (Returned /\ Matched) =>
    \A j \in 1..Len(tokens) :
      FixedWidth(tokens[j]) > 0 =>
        \A a \in 0..Len(input) : \A b \in a..Len(input) :
          DigitsAtToken(j, a, b) => b - a = FixedWidth(tokens[j])

RECURSIVE GroupsBefore(_), ConsumedBefore(_)
\* the capturing groups of the assembled pattern opened before unit j's own group
GroupsBefore(j) ==
  IF j = 1 THEN 0 ELSE GroupsBefore(j - 1) + NumGroups(Group(units[j - 1].regex))

\* the groups the loop of match consumed before it reached unit j
ConsumedBefore(j) ==
  IF j = 1 THEN 0 ELSE ConsumedBefore(j - 1) + GroupsOf(units[j - 1])

\* C7: on a match the cursor starts at 1, the groups consumed over all
\* descriptors are the capturing groups of the pattern, and each descriptor
\* is handed exactly the groups of its own sub-pattern.
C7_GroupBookkeeping ==
  (Returned /\ Matched) =>
    /\ ConsumedBefore(Len(units) + 1) = NumGroups(regex.node)
    /\ \A j \in 1..Len(units) :
         /\ MatchIndexAt(units, j) = 1 + GroupsBefore(j)
         /\ GroupsOf(units[j]) = NumGroups(Group(units[j].regex))

\* unit j fills the raw field map under letter k / resolves to field f
HasLetter(j, k) == ~units[j].literal /\ tokens[j].val[1] = k

HasField(j, f) == ~units[j].literal /\ toField(tokens[j].val[1]) = f

TokenIndexes == 1..Len(units)

LastWith(k) == CHOOSE j \in TokenIndexes :
  HasLetter(j, k) /\ \A m \in TokenIndexes : HasLetter(m, k) => m <= j

FirstWith(k) == CHOOSE j \in TokenIndexes :
  HasLetter(j, k) /\ \A m \in TokenIndexes : HasLetter(m, k) => j <= m

\* the letter of the last token of the format that resolves to field f
LastLetterFor(f) == tokens[CHOOSE j \in TokenIndexes :
  HasField(j, f) /\ \A m \in TokenIndexes : HasField(m, f) => m <= j].val[1]

\* the letter, among those resolving to f, whose first token comes latest
LatestEnteredFor(f) == tokens[CHOOSE j \in TokenIndexes :
  /\ HasField(j, f) /\ FirstWith(tokens[j].val[1]) = j
  /\ \A m \in TokenIndexes : HasField(m, f) => FirstWith(tokens[m].val[1]) <= j].val[1]

Fields == {toField(tokens[j].val[1]) : j \in {m \in TokenIndexes : ~units[m].literal}}
            \ {"null"}

\* each letter of the raw field map holds what its last token deserialized to
LastTokenPerLetter ==
  \A j \in TokenIndexes :
    ~units[j].literal =>
      Get(deserialized.map, tokens[j].val[1]) =
        DeserAt(units, LastWith(tokens[j].val[1]), rawMatches.groups)

\* C8 as stated: each resolved field holds the value (after the adjustments)
\* of the token that comes last in the format among those resolving to it.
C8_LastTokenWins ==
  (Returned /\ Matched) =>
    /\ LastTokenPerLetter
    /\ \A f \in Fields : Get(result.map, f) = Get(matches.map, LastLetterFor(f))

\* C8 amended: tokens with the same letter: the last one wins; tokens with
\* different letters for one field: the letter first met latest in the format
\* wins, with the value of its last token.
C8_LastEnteredLetterWins ==
  (Returned /\ Matched) =>
    /\ LastTokenPerLetter
    /\ \A f \in Fields : Get(result.map, f) = Get(matches.map, LatestEnteredFor(f))

\* C8 witness: M L M, the month is that of L and differs from the last M
C8_Witness ==
  /\ Returned /\ Matched
  /\ tokens = <<Sym(Token.M), Sym(Token.L), Sym(Token.M)>>
  /\ Get(result.map, "month") = Get(deserialized.map, "L")
  /\ Get(deserialized.map, "L") # Get(deserialized.map, "M")
  /\ Get(deserialized.map, "M") = DeserAt(units, 3, rawMatches.groups)

\* C9: the raw field map explainFromTokens returns is the one the
\* deserializers filled: dateTimeFromMatches leaves it unchanged.
C9_RawMapUnchanged ==
  (Returned /\ Matched) => matches.map = deserialized.map

\* C10: every text an enumeration unit accepted deserializes to an ordinal
\* in originIndex .. originIndex + (number of candidates) - 1.
C10_OrdinalInRange ==
  (Returned /\ Matched) =>
    \A j \in 1..Len(units) :
      units[j].deser = "oneOf" =>
        /\ DeserAt(units, j, rawMatches.groups).t = "num"
        /\ DeserAt(units, j, rawMatches.groups).n \in
             units[j].startIndex .. units[j].startIndex + Len(units[j].strings) - 1

====
